---- MODULE Spec2Model ----
(***************************************************************************)
(* Model of bin/build-dist.py: the release builder that cross-compiles the *)
(* binary for every (GOOS, GOARCH) pair and moves each result into dist/   *)
(* under a name holding the pair and the (normalized) git tag.             *)
(*                                                                         *)
(* Strings the script inspects character by character (the tag, the file   *)
(* names it formats) are sequences of one-character strings.               *)
(***************************************************************************)
EXTENDS Integers, Sequences, FiniteSets, TLC

VARIABLES
    pc,          \* the statement the script is at; "exit" once the process ended
    exitCode,    \* {} while running, {n} once the process exited with status n
    environ,     \* os.environ: variable name -> value
    distDir,     \* what the path "dist" is: "absent", "dir" or "file"
    distFiles,   \* the files in dist/: file name -> content
    binPath,     \* the content at cmd/ipfs/ipfs
    tag,         \* the script's variable tag
    it,          \* position of the itertools.product iterator (next index)
    goos,        \* loop variable goos
    goarch,      \* loop variable goarch
    calls,       \* the `make build` invocations so far: [goos, goarch, env]
    out,         \* the lines printed to standard output
    returncode,  \* exit status of the last subprocess that ran (0 before any)
    failure,     \* what ended the run: "none", "makedirs", "git", "build", "rename"
    rawTag,      \* history: the trimmed tag before normalization
    deposited,   \* history: whether the last build wrote cmd/ipfs/ipfs
    dist0,       \* history: dist/ when the run started
    bin0         \* history: cmd/ipfs/ipfs when the run started

vars == <<pc, exitCode, environ, distDir, distFiles, binPath, tag, it, goos,
          goarch, calls, out, returncode, failure, rawTag, deposited, dist0,
          bin0>>

----------------------------------------------------------------------------
(* Bounds *)

\* longest tag `git describe` prints in the tag-normalization specification
MaxTagLen == 5
\* longest tag `git describe` prints in the specification of the whole run
MaxRunTagLen == 2
\* largest non-zero exit status a subprocess ends with
MaxStatus == 2

----------------------------------------------------------------------------
(* Python string helpers, on sequences of characters *)

\* c in s
In(c, s) == \E i \in 1..Len(s) : s[i] = c

\* s.find(c): 0-based index of the first c, -1 when there is none
Find(s, c) ==
    IF In(c, s)
    THEN (CHOOSE i \in 1..Len(s) : s[i] = c /\ \A j \in 1..(i-1) : s[j] # c) - 1
    ELSE 0 - 1

\* s.split(c, 1): one piece when c is absent, else the text before and after
\* the first c
Split1(s, c) ==
    IF In(c, s)
    THEN << SubSeq(s, 1, Find(s, c)), SubSeq(s, Find(s, c) + 2, Len(s)) >>
    ELSE << s >>

Whitespace == {" ", "\n"}

\* s.strip(): leading and trailing whitespace removed
Strip(s) ==
    LET keep == {i \in 1..Len(s) : s[i] \notin Whitespace}
    IN  IF keep = {} THEN << >>
        ELSE LET lo == CHOOSE i \in keep : \A j \in keep : i <= j
                 hi == CHOOSE i \in keep : \A j \in keep : j <= i
             IN  SubSeq(s, lo, hi)

----------------------------------------------------------------------------
(* Constants of the script *)

GOOS ==
    << <<"d","a","r","w","i","n">>,
       <<"f","r","e","e","b","s","d">>,
       <<"l","i","n","u","x">>,
       <<"o","p","e","n","b","s","d">>,
       <<"w","i","n","d","o","w","s">> >>

GOARCH ==
    << <<"3","8","6">>,
       <<"a","m","d","6","4">>,
       <<"a","r","m">>,
       <<"a","r","m","6","4">> >>

IGNORED ==
    { << <<"d","a","r","w","i","n">>, <<"3","8","6">> >>,
      << <<"d","a","r","w","i","n">>, <<"a","r","m">> >> }

\* faulty variant: the loops exchanged: B is the outer loop
ProductInnerFirst(A, B) ==
    [k \in 1..(Len(A) * Len(B)) |->
        << A[((k - 1) % Len(A)) + 1], B[((k - 1) \div Len(A)) + 1] >>]

\* itertools.product(A, B): A is the outer loop, B the inner one
Product(A, B) ==
    [k \in 1..(Len(A) * Len(B)) |->
        << A[((k - 1) \div Len(B)) + 1], B[((k - 1) % Len(B)) + 1] >>]

MATRIX == Product(GOOS, GOARCH)

----------------------------------------------------------------------------
(* Tag normalization (lines 16-21) *)

\* s.rfind(c): 0-based index of the last c, -1 when there is none
RFind(s, c) ==
    IF In(c, s)
    THEN (CHOOSE i \in 1..Len(s) :
            s[i] = c /\ \A j \in (i+1)..Len(s) : s[j] # c) - 1
    ELSE 0 - 1

\* s.rsplit(c, 1), for an s that holds c
RSplit1(s, c) ==
    << SubSeq(s, 1, RFind(s, c)), SubSeq(s, RFind(s, c) + 2, Len(s)) >>

\* faulty variant: the order test looks at the last "-", not the first
NormalizeGuardLastDash(t) ==
    In("-", t) /\ In("+", t) /\ Find(t, "+") < RFind(t, "-")

\* the condition of the `if` on line 16
NormalizeGuard(t) ==
    In("-", t) /\ In("+", t) /\ Find(t, "+") < Find(t, "-")

\* faulty variant: the two separators exchanged in the f-string
ReassembleSwapped(ver, pre, build) ==
    ver \o <<"+">> \o pre \o <<"-">> \o build

\* the f-string on line 21
Reassemble(ver, pre, build) == ver \o <<"-">> \o pre \o <<"+">> \o build

\* faulty variant: the remainder is split at its last "-"
normalize_tag_rsplit(t) ==
    IF NormalizeGuard(t)
    THEN LET ver   == Split1(t, "+")[1]
             rem   == Split1(t, "+")[2]
             build == RSplit1(rem, "-")[1]
             pre   == RSplit1(rem, "-")[2]
         IN  Reassemble(ver, pre, build)
    ELSE t

\* lines 16-21: the value of tag after the `if` statement
normalize_tag(t) ==
    IF NormalizeGuard(t)
    THEN LET ver   == Split1(t, "+")[1]
             rem   == Split1(t, "+")[2]
             build == Split1(rem, "-")[1]
             pre   == Split1(rem, "-")[2]
         IN  Reassemble(ver, pre, build)
    ELSE t

----------------------------------------------------------------------------
(* Files, environment and process exit *)

NoFile   == [kind |-> "none",  call |-> 0]
\* a file that was there before the run started
Stale    == [kind |-> "stale", call |-> 0]
\* the binary written by the k-th `make build` of this run
Built(k) == [kind |-> "built", call |-> k]

NoFiles == << >>

\* faulty variant: the architecture left out of the name
ArtifactNameNoArch(os, arch, t) ==
    <<"k","u","b","o","_">> \o os \o <<"-">> \o t

\* f"dist/kubo_{goos}_{goarch}-{tag}", without the directory
ArtifactName(os, arch, t) ==
    <<"k","u","b","o","_">> \o os \o <<"_">> \o arch \o <<"-">> \o t

\* faulty variant: the operands of | exchanged: a's value where both have the key
OverlayLeftWins(a, b) ==
    [k \in (DOMAIN a) \cup (DOMAIN b) |-> IF k \in DOMAIN a THEN a[k] ELSE b[k]]

\* a | b on mappings: the keys of both, b's value where both have the key
Overlay(a, b) ==
    [k \in (DOMAIN a) \cup (DOMAIN b) |-> IF k \in DOMAIN b THEN b[k] ELSE a[k]]

\* the dict literal on line 28
Overrides(os, arch) == [GOOS |-> os, GOARCH |-> arch, CGO_ENABLED |-> <<"0">>]

\* line 28: the environment of the build
BuildEnv(os, arch) == Overlay(environ, Overrides(os, arch))

\* line 28: os.environ after `os.environ | {...}`; | builds a new mapping and
\* leaves its operands as they were
EnvironAfterOr(os, arch) == environ

\* faulty variant: check=True left out: the exit status is not looked at
CheckFalse(rc) == FALSE

\* subprocess.run(..., check=True): whether CalledProcessError is raised
CheckTrue(rc) == rc # 0

\* faulty variant: .check_returncode() left out
no_check_returncode(rc) == FALSE

\* CompletedProcess.check_returncode(): whether CalledProcessError is raised
check_returncode(rc) == rc # 0

\* faulty variant: the script exits with the status the exception carries
PropagatedExit(exc) == exc.returncode

\* exit status of the interpreter when exception exc reaches the top level: the
\* script catches nothing, and the status does not depend on the exception
UncaughtExit(exc) == 1

\* an exception propagates out of the script: the process ends
Raise(kind, exc) ==
    /\ pc' = "exit"
    /\ exitCode' = {UncaughtExit(exc)}
    /\ failure' = kind

CalledProcessError(rc) == [type |-> "CalledProcessError", returncode |-> rc]
OSError(name)          == [type |-> name, returncode |-> 0]

\* faulty variant: the file is copied: the source stays
SourceAfterCopy == binPath

\* os.rename removes the source path
SourceAfterRename == NoFile

ExitStatuses == 1..MaxStatus

----------------------------------------------------------------------------
(* What the script starts in *)

InheritedEnv ==
    [PATH |-> <<"/","b">>, HOME |-> <<"/","h">>, GOOS |-> <<"p","9">>,
     GOARCH |-> <<"m">>, CGO_ENABLED |-> <<"1">>]

Restrict(f, K) == [k \in K |-> f[k]]

\* PATH is always set; the other variables may or may not be
Environs ==
    { Restrict(InheritedEnv, {"PATH"} \cup K) :
        K \in { {}, {"HOME"}, {"GOOS", "GOARCH"},
                {"HOME", "GOOS", "GOARCH", "CGO_ENABLED"} } }

\* left by an earlier run of the script on tag "a"
StaleName == ArtifactName(GOOS[1], GOARCH[2], <<"a">>)

\* dist/ before the run: [dir, files]
InitialDists ==
    { [dir |-> "absent", files |-> NoFiles],
      [dir |-> "dir",    files |-> NoFiles],
      [dir |-> "dir",    files |-> (StaleName :> Stale)],
      [dir |-> "file",   files |-> NoFiles] }

TagChars == {"a", "+", "-"}

\* non-empty texts over TagChars of length at most n
Tags(n) == UNION { [1..m -> TagChars] : m \in 1..n }

\* what `git describe --tags` writes to stdout: the tag and a newline
GitOutputs(n) == { t \o <<"\n">> : t \in Tags(n) }

InitWith(envs, dists, bins) ==
    /\ pc = "makedirs"
    /\ exitCode = {}
    /\ environ \in envs
    /\ dist0 \in dists
    /\ distDir = dist0.dir
    /\ distFiles = dist0.files
    /\ bin0 \in bins
    /\ binPath = bin0
    /\ tag = << >>
    /\ rawTag = << >>
    /\ it = 1
    /\ goos = << >>
    /\ goarch = << >>
    /\ calls = << >>
    /\ out = << >>
    /\ returncode = 0
    /\ failure = "none"
    /\ deposited = FALSE

Init == InitWith(Environs, InitialDists, {NoFile, Stale})

----------------------------------------------------------------------------
(* The statements of the script *)

\* line 11: os.makedirs("dist", exist_ok=True)
MakeDirs ==
    /\ pc = "makedirs"
    /\ IF distDir = "file"
       THEN /\ Raise("makedirs", OSError("FileExistsError"))
            /\ UNCHANGED distDir
       ELSE /\ distDir' = "dir"
            /\ pc' = "git"
            /\ UNCHANGED <<exitCode, failure>>
    /\ UNCHANGED <<environ, distFiles, binPath, tag, it, goos, goarch, calls,
                   out, returncode, rawTag, deposited, dist0, bin0>>

\* lines 13-15: tag = subprocess.run(git describe, check=True).stdout.strip()
GitDescribe(outputs) ==
    /\ pc = "git"
    /\ \E rc \in {0} \cup ExitStatuses :
       \E stdout \in (IF rc = 0 THEN outputs ELSE {<< >>}) :
          /\ returncode' = rc
          /\ IF CheckTrue(rc)
             THEN /\ Raise("git", CalledProcessError(rc))
                  /\ UNCHANGED <<tag, rawTag>>
             ELSE /\ tag' = Strip(stdout)
                  /\ rawTag' = Strip(stdout)
                  /\ pc' = "normalize"
                  /\ UNCHANGED <<exitCode, failure>>
    /\ UNCHANGED <<environ, distDir, distFiles, binPath, it, goos, goarch,
                   calls, out, deposited, dist0, bin0>>

\* lines 16-21
NormalizeTag ==
    /\ pc = "normalize"
    /\ tag' = normalize_tag(tag)
    /\ pc' = "print"
    /\ UNCHANGED <<exitCode, environ, distDir, distFiles, binPath, it, goos,
                   goarch, calls, out, returncode, failure, rawTag, deposited,
                   dist0, bin0>>

\* line 23: print(f"using tag {tag}")
PrintTag ==
    /\ pc = "print"
    /\ out' = Append(out, <<"using tag ", tag>>)
    /\ pc' = "loop"
    /\ UNCHANGED <<exitCode, environ, distDir, distFiles, binPath, tag, it,
                   goos, goarch, calls, returncode, failure, rawTag, deposited,
                   dist0, bin0>>

\* lines 24-26: the iterator yields the next pair; an ignored pair is skipped
LoopNext ==
    /\ pc = "loop"
    /\ it <= Len(MATRIX)
    /\ goos' = MATRIX[it][1]
    /\ goarch' = MATRIX[it][2]
    /\ it' = it + 1
    /\ pc' = IF MATRIX[it] \in IGNORED THEN "loop" ELSE "build"
    /\ UNCHANGED <<exitCode, environ, distDir, distFiles, binPath, tag, calls,
                   out, returncode, failure, rawTag, deposited, dist0, bin0>>

\* line 24, iterator exhausted: the script ends normally
Finish ==
    /\ pc = "loop"
    /\ it > Len(MATRIX)
    /\ pc' = "exit"
    /\ exitCode' = {0}
    /\ UNCHANGED <<environ, distDir, distFiles, binPath, tag, it, goos,
                   goarch, calls, out, returncode, failure, rawTag, deposited,
                   dist0, bin0>>

\* lines 27-29: the progress line, the environment, `make build` and the check
\* of its exit status. The build may or may not write cmd/ipfs/ipfs.
Build ==
    /\ pc = "build"
    /\ out' = Append(out, <<"building ", goos, "/", goarch>>)
    /\ environ' = EnvironAfterOr(goos, goarch)
    /\ calls' = Append(calls, [goos |-> goos, goarch |-> goarch,
                               env |-> BuildEnv(goos, goarch)])
    /\ \E rc \in {0} \cup ExitStatuses, wrote \in BOOLEAN :
          /\ returncode' = rc
          /\ deposited' = wrote
          /\ binPath' = IF wrote THEN Built(Len(calls) + 1) ELSE binPath
          /\ IF check_returncode(rc)
             THEN Raise("build", CalledProcessError(rc))
             ELSE /\ pc' = "rename"
                  /\ UNCHANGED <<exitCode, failure>>
    /\ UNCHANGED <<distDir, distFiles, tag, it, goos, goarch, rawTag, dist0,
                   bin0>>

\* line 30: os.rename("cmd/ipfs/ipfs", f"dist/kubo_{goos}_{goarch}-{tag}").
\* An existing destination is replaced on POSIX and is an error on Windows.
Rename ==
    /\ pc = "rename"
    /\ LET dst == ArtifactName(goos, goarch, tag)
           moved == /\ distFiles' = (dst :> binPath) @@ distFiles
                    /\ binPath' = SourceAfterRename
                    /\ pc' = "loop"
                    /\ UNCHANGED <<exitCode, failure>>
           fails(name) == /\ Raise("rename", OSError(name))
                          /\ UNCHANGED <<distFiles, binPath>>
       IN  IF binPath = NoFile \/ distDir # "dir"
           THEN fails("FileNotFoundError")
           ELSE IF dst \in DOMAIN distFiles
                THEN moved \/ fails("FileExistsError")
                ELSE moved
    /\ UNCHANGED <<environ, distDir, tag, it, goos, goarch, calls, out,
                   returncode, rawTag, deposited, dist0, bin0>>

Next ==
    \/ MakeDirs
    \/ GitDescribe(GitOutputs(MaxRunTagLen))
    \/ NormalizeTag
    \/ PrintTag
    \/ LoopNext
    \/ Finish
    \/ Build
    \/ Rename

Spec == Init /\ [][Next]_vars

\* Tag resolution and normalization alone, over every tag up to MaxTagLen
InitTag ==
    InitWith({Restrict(InheritedEnv, {"PATH"})},
             {[dir |-> "absent", files |-> NoFiles]}, {NoFile})

NextTag ==
    \/ MakeDirs
    \/ GitDescribe(GitOutputs(MaxTagLen))
    \/ NormalizeTag
    \/ PrintTag

SpecTag == InitTag /\ [][NextTag]_vars

----------------------------------------------------------------------------
(* Vocabulary of the properties, stated without the script's own helpers *)

\* the 18 pairs of the build matrix, in order
ClaimL ==
    LET darwin  == <<"d","a","r","w","i","n">>
        freebsd == <<"f","r","e","e","b","s","d">>
        linux   == <<"l","i","n","u","x">>
        openbsd == <<"o","p","e","n","b","s","d">>
        windows == <<"w","i","n","d","o","w","s">>
        x386    == <<"3","8","6">>
        amd64   == <<"a","m","d","6","4">>
        arm     == <<"a","r","m">>
        arm64   == <<"a","r","m","6","4">>
    IN  << <<darwin, amd64>>, <<darwin, arm64>>,
           <<freebsd, x386>>, <<freebsd, amd64>>, <<freebsd, arm>>, <<freebsd, arm64>>,
           <<linux, x386>>,   <<linux, amd64>>,   <<linux, arm>>,   <<linux, arm64>>,
           <<openbsd, x386>>, <<openbsd, amd64>>, <<openbsd, arm>>, <<openbsd, arm64>>,
           <<windows, x386>>, <<windows, amd64>>, <<windows, arm>>, <<windows, arm64>> >>

\* the pairs `make build` was invoked for, read off the environments it got
AttemptedPairs ==
    [k \in 1..Len(calls) |-> << calls[k].env["GOOS"], calls[k].env["GOARCH"] >>]

IsPrefix(s, t) ==
    /\ Len(s) <= Len(t)
    /\ \A i \in 1..Len(s) : s[i] = t[i]

\* the run got past tag normalization
Normalized == pc \in {"print", "loop", "build", "rename"} \/
              (pc = "exit" /\ failure \notin {"makedirs", "git"})

\* position of the first c in t (t holds c)
FirstPos(t, c) == CHOOSE i \in 1..Len(t) : t[i] = c /\ \A j \in 1..(i-1) : t[j] # c

\* t holds "+" and "-", and its first "+" comes before its first "-"
PlusBeforeDash(t) ==
    \E p \in 1..Len(t), m \in 1..Len(t) :
        /\ p < m
        /\ t[p] = "+"
        /\ t[m] = "-"
        /\ \A j \in 1..(m - 1) : t[j] # "-"
        /\ \A j \in 1..(p - 1) : t[j] # "+"

\* version, "-", prerelease, "+", build
Swapped(t) ==
    LET p == FirstPos(t, "+")
        m == FirstPos(t, "-")
    IN  SubSeq(t, 1, p - 1) \o <<"-">> \o SubSeq(t, m + 1, Len(t))
          \o <<"+">> \o SubSeq(t, p + 1, m - 1)

\* how often c occurs in t
Count(t, c) == Cardinality({i \in 1..Len(t) : t[i] = c})

\* the run started with no file in dist
EmptyStart == dist0.files = NoFiles /\ dist0.dir \in {"absent", "dir"}

\* "kubo_<os>_<arch>-<tag>" for the k-th pair of the matrix
NameOfPair(k, t) ==
    <<"k","u","b","o","_">> \o ClaimL[k][1] \o <<"_">> \o ClaimL[k][2]
        \o <<"-">> \o t

\* nothing happens after the process has ended
ExitIsFinal == pc # "exit"

----------------------------------------------------------------------------
(* C1: the pairs the build command is invoked for are always a prefix of   *)
(* the matrix order L (operating systems outer, architectures inner, the   *)
(* two darwin exclusions removed), and are all of L when the run ends with *)
(* no failure.                                                             *)
C1_AttemptsFollowMatrix ==
    /\ Len(ClaimL) = 18
    /\ IsPrefix(AttemptedPairs, ClaimL)
    /\ (pc = "exit" /\ failure = "none") => AttemptedPairs = ClaimL

C1_Witness == pc = "exit" /\ failure = "none" /\ Len(calls) = 18

(* C2: a build that exits non-zero ends the run in that very step: dist is  *)
(* left as it was (nothing moved for the pair, earlier artifacts in place), *)
(* the attempt is counted once, and no step follows the exit.              *)
C2_BuildFailureAborts ==
    [][ /\ ExitIsFinal
        /\ (pc = "build" /\ returncode' # 0) =>
              /\ pc' = "exit"
              /\ exitCode' # {} /\ 0 \notin exitCode'
              /\ distFiles' = distFiles
              /\ distDir' = distDir
              /\ Len(calls') = Len(calls) + 1
              /\ \A n \in DOMAIN distFiles' :
                    distFiles'[n] # Built(Len(calls')) ]_vars

C2_Witness ==
    /\ pc = "exit" /\ failure = "build"
    /\ Len(calls) >= 3
    /\ Cardinality(DOMAIN distFiles) = Len(calls) - 1

(* C3: when the resolved tag has a "+" before its first "-", the tag used  *)
(* is version-prerelease+build, the prerelease being everything after that *)
(* "-"; "1.2.0+abc123-rc1" becomes "1.2.0-rc1+abc123".                     *)
C3_NormalizationSwaps ==
    /\ (Normalized /\ PlusBeforeDash(rawTag)) => tag = Swapped(rawTag)
    /\ normalize_tag(<<"1",".","2",".","0","+","a","b","c","1","2","3","-","r","c","1">>)
         = <<"1",".","2",".","0","-","r","c","1","+","a","b","c","1","2","3">>

C3_Witness ==
    /\ Normalized
    /\ rawTag = <<"a","+","-","+","-">>
    /\ tag    = <<"a","-","+","-","+">>

(* C4: a resolved tag with no "+", or no "-", or with its first "-" before *)
(* its first "+", is used unchanged.                                       *)
C4_PassThrough ==
    /\ (Normalized /\ ~PlusBeforeDash(rawTag)) => tag = rawTag
    /\ \A t \in { <<"1",".","2",".","0","-","r","c","1">>,
                  <<"1",".","2",".","0","+","a","b","c","1","2","3">>,
                  <<"1",".","2",".","0","-","r","c","1","+","a","b","c","1","2","3">> } :
          normalize_tag(t) = t

C4_Witness ==
    /\ Normalized
    /\ rawTag = <<"-","a","+","-">>
    /\ tag = rawTag

(* C10: normalizing is idempotent and keeps the length and the characters: *)
(* in the normalized tag the first "+" never comes before the first "-",   *)
(* normalizing it again changes nothing, and it has the characters of the  *)
(* resolved tag, each as often.                                            *)
C10_NormalizeIdempotent ==
    Normalized =>
        /\ ~PlusBeforeDash(tag)
        /\ normalize_tag(tag) = tag
        /\ Len(tag) = Len(rawTag)
        /\ \A c \in TagChars : Count(tag, c) = Count(rawTag, c)

C10_Witness ==
    /\ Normalized
    /\ rawTag = <<"+","a","-","+","a">>
    /\ tag # rawTag
    /\ normalize_tag(tag) = tag

(* C5: a run that starts with no file in dist and ends with no failure     *)
(* leaves exactly the 18 files kubo_<os>_<arch>-<tag>, one per pair of the *)
(* matrix, all with the one normalized tag; the tag does not change once   *)
(* the loop runs, and no step removes or replaces a file of dist.          *)
C5_OneArtifactPerPair ==
    /\ [](EmptyStart /\ pc = "exit" /\ failure = "none" =>
            /\ DOMAIN distFiles = { NameOfPair(k, tag) : k \in 1..Len(ClaimL) }
            /\ Cardinality(DOMAIN distFiles) = 18
            /\ tag = IF PlusBeforeDash(rawTag) THEN Swapped(rawTag) ELSE rawTag)
    /\ [](ArtifactName(<<"l","i","n","u","x">>, <<"a","m","d","6","4">>,
                       <<"v","0",".","3","0",".","0">>)
            = <<"k","u","b","o","_","l","i","n","u","x","_","a","m","d","6","4",
                "-","v","0",".","3","0",".","0">>)
    /\ [][ /\ pc \in {"loop", "build", "rename"} => tag' = tag
           /\ EmptyStart =>
                \A n \in DOMAIN distFiles :
                    n \in DOMAIN distFiles' /\ distFiles'[n] = distFiles[n] ]_vars

C5_Witness ==
    /\ EmptyStart /\ pc = "exit" /\ failure = "none"
    /\ Cardinality(DOMAIN distFiles) = 18
    /\ tag # rawTag

(* C6 as stated: the exit code is 0 exactly when nothing failed, and when  *)
(* git or a build exits with status s the script exits with status s.      *)
C6_ExitStatusPropagated ==
    pc = "exit" =>
        /\ (exitCode = {0}) <=> (failure = "none")
        /\ failure \in {"git", "build"} => exitCode = {returncode}

(* C6, amended: the exit code is 0 exactly when nothing failed; when git   *)
(* or a build exits with a non-zero status s, or a rename fails, the       *)
(* script exits with status 1, whatever s is.                              *)
C6_ExitStatusIsOne ==
    /\ pc # "exit" <=> exitCode = {}
    /\ pc = "exit" =>
        /\ (exitCode = {0}) <=> (failure = "none")
        /\ failure \in {"git", "build"} => returncode # 0
        /\ failure # "none" => exitCode = {1}

C6_Witness ==
    pc = "exit" /\ failure = "build" /\ returncode = 2 /\ exitCode = {1}

(* C7: when git describe exits non-zero the run ends in that step, before  *)
(* the loop: no build has been invoked, nothing has been printed, dist     *)
(* holds the files it started with, and no step follows.                   *)
C7_GitFailureAborts ==
    [][ /\ ExitIsFinal
        /\ (pc = "git" /\ returncode' # 0) =>
              /\ pc' = "exit"
              /\ 0 \notin exitCode'
              /\ calls' = << >>
              /\ out' = << >>
              /\ distFiles' = dist0.files ]_vars

C7_Witness ==
    /\ pc = "exit" /\ failure = "git"
    /\ dist0.dir = "absent" /\ distDir = "dir"
    /\ calls = << >> /\ out = << >>

(* C8: the k-th build gets the inherited environment with GOOS and GOARCH  *)
(* set to the k-th pair and CGO_ENABLED to "0", every other variable as    *)
(* inherited; the process's own environment never changes.                 *)
C8_EnvironmentOverlay ==
    /\ [](\A k \in 1..Len(calls) :
            LET e == calls[k].env
                three == {"GOOS", "GOARCH", "CGO_ENABLED"}
            IN  /\ k <= Len(ClaimL)
                /\ DOMAIN e = (DOMAIN environ) \cup three
                /\ e["GOOS"] = ClaimL[k][1]
                /\ e["GOARCH"] = ClaimL[k][2]
                /\ e["CGO_ENABLED"] = <<"0">>
                /\ \A v \in (DOMAIN environ) \ three : e[v] = environ[v])
    /\ [][environ' = environ]_vars

C8_Witness ==
    /\ Len(calls) >= 2
    /\ "GOOS" \in DOMAIN environ /\ "HOME" \in DOMAIN environ
    /\ environ["GOOS"] # calls[2].env["GOOS"]
    /\ environ["CGO_ENABLED"] = <<"1">>

(* C9: a rename that succeeds leaves no file at cmd/ipfs/ipfs. When that   *)
(* path held no file at the start: a build that exits 0 without writing    *)
(* the binary is followed by a failing rename that ends the run, with dist *)
(* and the builds invoked as they were; and every file of dist is one it    *)
(* started with or is named for the k-th pair and is the binary written by *)
(* the k-th build.                                                         *)
C9_MovedNotCopied ==
    /\ [][ /\ ExitIsFinal
           /\ (pc = "rename" /\ pc' = "loop") => binPath' = NoFile
           /\ (bin0 = NoFile /\ pc = "rename" /\ ~deposited) =>
                 /\ pc' = "exit"
                 /\ 0 \notin exitCode'
                 /\ distFiles' = distFiles
                 /\ calls' = calls ]_vars
    /\ [](bin0 = NoFile =>
            \A n \in DOMAIN distFiles :
                \/ n \in DOMAIN dist0.files /\ distFiles[n] = dist0.files[n]
                \/ \E k \in 1..Len(calls) :
                      /\ k <= Len(ClaimL)
                      /\ n = NameOfPair(k, tag)
                      /\ distFiles[n] = Built(k))

C9_Witness ==
    /\ bin0 = NoFile
    /\ pc = "exit" /\ failure = "rename"
    /\ returncode = 0 /\ ~deposited
    /\ Len(calls) >= 2
    /\ Cardinality(DOMAIN distFiles) >= 1

====
